---- MODULE Spec2Model ----
(***************************************************************************)
(* Cortex backend (src/backend/main.py): the transcript-to-note pipeline   *)
(* (call_ai, parse_ai_response, process_transcript, create_note_content)   *)
(* and the corpus accessors (create_folder, list_entries).                 *)
(*                                                                         *)
(* Text is a sequence of atoms.  An atom is a TLA+ string: one character   *)
(* for transcripts and names, a lexical chunk ("2024", "---") elsewhere.   *)
(* A classifier text is a sequence of JSON lexemes [k, s]: punctuation,    *)
(* string literals (with their text s), null, and prose.                   *)
(***************************************************************************)
EXTENDS Integers, Sequences, FiniteSets, TLC

(***************************************************************************)
(* Python string primitives, 0-based as in the source.                     *)
(***************************************************************************)
Min(a, b) == IF a < b THEN a ELSE b
Max(a, b) == IF a > b THEN a ELSE b

\* s[a:b] for 0 <= a
Slice(s, a, b) == SubSeq(s, a + 1, Min(b, Len(s)))

\* s[:n] for n >= 0
Prefix(s, n) == Slice(s, 0, n)

\* str.find on lexemes of kind k: lowest 0-based index, -1 when absent
FindKind(t, k) ==
  IF \E i \in 1..Len(t) : t[i].k = k
  THEN (CHOOSE i \in 1..Len(t) : t[i].k = k /\ \A j \in 1..(i - 1) : t[j].k # k) - 1
  ELSE -1

\* str.rfind on lexemes of kind k: highest 0-based index, -1 when absent
RFindKind(t, k) ==
  IF \E i \in 1..Len(t) : t[i].k = k
  THEN (CHOOSE i \in 1..Len(t) : t[i].k = k /\ \A j \in (i + 1)..Len(t) : t[j].k # k) - 1
  ELSE -1

(***************************************************************************)
(* JSON lexemes and values.                                                *)
(***************************************************************************)
Lex(k) == [k |-> k, s |-> <<>>]
StrLit(s) == [k |-> "str", s |-> s]
LBRACE == Lex("lbrace")
RBRACE == Lex("rbrace")
COLON == Lex("colon")
COMMA == Lex("comma")
NULL == Lex("null")
PROSE == Lex("text")
OBJ == Lex("obj")

\* json.loads: recursive descent over the lexemes; a failure is JSONDecodeError
ParseFail == [ok |-> FALSE, next |-> 0, pairs |-> <<>>, val |-> NULL]

RECURSIVE ParseValue(_, _), ParseMembers(_, _, _)

ParseObject(t, i) ==
  IF i + 1 > Len(t) \/ t[i].k # "lbrace" THEN ParseFail
  ELSE IF t[i + 1].k = "rbrace"
       THEN [ok |-> TRUE, next |-> i + 2, pairs |-> <<>>, val |-> OBJ]
       ELSE ParseMembers(t, i + 1, <<>>)

ParseValue(t, i) ==
  IF i > Len(t) THEN ParseFail
  ELSE IF t[i].k \in {"str", "null"}
       THEN [ok |-> TRUE, next |-> i + 1, pairs |-> <<>>, val |-> t[i]]
       ELSE IF t[i].k = "lbrace"
            THEN LET o == ParseObject(t, i)
                 IN IF o.ok THEN [o EXCEPT !.pairs = <<>>] ELSE ParseFail
            ELSE ParseFail

ParseMembers(t, i, acc) ==
  IF i + 2 > Len(t) \/ t[i].k # "str" \/ t[i + 1].k # "colon" THEN ParseFail
  ELSE LET v == ParseValue(t, i + 2)
       IN IF ~v.ok \/ v.next > Len(t) THEN ParseFail
          ELSE LET acc2 == Append(acc, <<t[i].s, v.val>>)
               IN IF t[v.next].k = "comma" THEN ParseMembers(t, v.next + 1, acc2)
                  ELSE IF t[v.next].k = "rbrace"
                       THEN [ok |-> TRUE, next |-> v.next + 1, pairs |-> acc2, val |-> OBJ]
                       ELSE ParseFail

\* json.loads(text): the whole text must be one value
JsonLoads(t) ==
  LET v == IF Len(t) > 0 /\ t[1].k = "lbrace" THEN ParseObject(t, 1) ELSE ParseValue(t, 1)
  IN IF v.ok /\ v.next = Len(t) + 1 THEN v ELSE ParseFail

\* variant: data.get(key) or default, which also replaces a null or an empty value
DictGetOr(pairs, key, default) ==
  LET hits == {i \in 1..Len(pairs) : pairs[i][1] = key}
      v == pairs[CHOOSE i \in hits : \A j \in hits : j <= i][2]
  IN IF hits = {} THEN default
     ELSE IF v.k = "null" \/ v = [k |-> "str", s |-> <<>>] THEN default ELSE v

\* dict.get(key, default): a repeated key keeps its last value
DictGet(pairs, key, default) ==
  LET hits == {i \in 1..Len(pairs) : pairs[i][1] = key}
  IN IF hits = {} THEN default
     ELSE pairs[CHOOSE i \in hits : \A j \in hits : j <= i][2]

\* json.dumps of a dict given as a sequence of <<key, value>> pairs
RECURSIVE DumpMembers(_)
DumpMembers(pairs) ==
  IF pairs = <<>> THEN <<>>
  ELSE <<StrLit(pairs[1][1]), COLON, pairs[1][2]>>
       \o (IF Len(pairs) > 1 THEN <<COMMA>> ELSE <<>>)
       \o DumpMembers(Tail(pairs))

JsonDumps(pairs) == <<LBRACE>> \o DumpMembers(pairs) \o <<RBRACE>>

(***************************************************************************)
(* Names and literals of the source.                                       *)
(***************************************************************************)
inbox == <<"i", "n", "b", "o", "x">>
tasks == <<"t", "a", "s", "k", "s">>
ideas == <<"i", "d", "e", "a", "s">>
journal == <<"j", "o", "u", "r", "n", "a", "l">>
Untitled == <<"Untitled">>
note == <<"note">>
Ellipsis == <<"...">>
kFolder == <<"folder">>
kTitle == <<"title">>
kSummary == <<"summary">>
kSlug == <<"slug">>

\* a classifier text (str) or a content that is no str
Text(t) == [isText |-> TRUE, toks |-> t]
NonText == [isText |-> FALSE, toks |-> <<>>]

Classification(f, t, s, g) == [folder |-> f, title |-> t, summary |-> s, slug |-> g]

DefaultResult(default_folder) ==
  Classification(StrLit(default_folder), StrLit(Untitled), StrLit(<<>>), StrLit(note))

Returned(v) == [err |-> "none", val |-> v]
Raised(e) == [err |-> e, val |-> DefaultResult(<<>>)]

\* variant: no except clause, json.JSONDecodeError leaves the function
parse_ai_response_uncaught(response, default_folder) ==
  IF ~response.isText THEN Raised("AttributeError")
  ELSE LET start == FindKind(response.toks, "lbrace")
           end == RFindKind(response.toks, "rbrace") + 1
       IN IF start >= 0 /\ end > start
          THEN LET data == JsonLoads(Slice(response.toks, start, end))
               IN IF data.ok
                  THEN Returned(Classification(
                         DictGet(data.pairs, kFolder, StrLit(default_folder)),
                         DictGet(data.pairs, kTitle, StrLit(Untitled)),
                         DictGet(data.pairs, kSummary, StrLit(<<>>)),
                         DictGet(data.pairs, kSlug, StrLit(note))))
                  ELSE Raised("JSONDecodeError")
          ELSE Returned(DefaultResult(default_folder))

\* parse_ai_response: only json.JSONDecodeError is caught
parse_ai_response(response, default_folder) ==
  IF ~response.isText THEN Raised("AttributeError")
  ELSE LET start == FindKind(response.toks, "lbrace")
           end == RFindKind(response.toks, "rbrace") + 1
       IN IF start >= 0 /\ end > start
          THEN LET data == JsonLoads(Slice(response.toks, start, end))
               IN IF data.ok
                  THEN Returned(Classification(
                         DictGet(data.pairs, kFolder, StrLit(default_folder)),
                         DictGet(data.pairs, kTitle, StrLit(Untitled)),
                         DictGet(data.pairs, kSummary, StrLit(<<>>)),
                         DictGet(data.pairs, kSlug, StrLit(note))))
                  ELSE Returned(DefaultResult(default_folder))
          ELSE Returned(DefaultResult(default_folder))

(***************************************************************************)
(* call_ai.  The remote call ends in one of: a transport failure, a        *)
(* timeout, a status other than 200, a 200 whose body is not the expected  *)
(* {choices:[{message:{content}}]} shape, or a 200 with a content (a str   *)
(* or any other JSON value).  readme_content only feeds the prompt.        *)
(***************************************************************************)
TitleLen == 30
SummaryLen == 100

Reply(kind, content) == [kind |-> kind, content |-> content]
FailureKinds == {"transport_error", "timeout", "non200", "bad_body"}

\* lines 253-260: the mock response without an API key
MockResponse(transcript, default_folder) ==
  Text(JsonDumps(<<
    <<kFolder, StrLit(default_folder)>>,
    <<kTitle, StrLit(IF Len(transcript) > TitleLen
                     THEN Prefix(transcript, TitleLen) \o Ellipsis
                     ELSE transcript)>>,
    <<kSummary, StrLit(Prefix(transcript, SummaryLen))>>,
    <<kSlug, StrLit(note)>> >>))

\* lines 299-304 and 307-312: the response on a non-200 status or an exception
ErrorResponse(transcript, default_folder) ==
  Text(JsonDumps(<<
    <<kFolder, StrLit(default_folder)>>,
    <<kTitle, StrLit(Prefix(transcript, TitleLen))>>,
    <<kSummary, StrLit(Prefix(transcript, SummaryLen))>>,
    <<kSlug, StrLit(note)>> >>))

call_ai(transcript, default_folder, api_key, reply) ==
  IF ~api_key THEN MockResponse(transcript, default_folder)
  ELSE IF reply.kind = "content" THEN reply.content
       ELSE ErrorResponse(transcript, default_folder)

(***************************************************************************)
(* Timestamps: request.timestamp.replace("Z", "+00:00"), then              *)
(* datetime.fromisoformat and strftime.                                    *)
(***************************************************************************)
Years == 2023..2025

Pad2(n) == IF n < 10 THEN "0" \o ToString(n) ELSE ToString(n)

\* int() of a two-digit and of a four-digit field; -1 when it is not one
TwoDigits == [a \in {Pad2(n) : n \in 0..99} |-> CHOOSE n \in 0..99 : Pad2(n) = a]
FourDigits == [a \in {ToString(n) : n \in Years} |-> CHOOSE n \in Years : ToString(n) = a]
Num2(a) == IF a \in DOMAIN TwoDigits THEN TwoDigits[a] ELSE -1
Num4(a) == IF a \in DOMAIN FourDigits THEN FourDigits[a] ELSE -1

RECURSIVE ReplaceAtom(_, _, _)
\* str.replace(old, new) for a one-atom old
ReplaceAtom(s, old, new) ==
  IF s = <<>> THEN <<>>
  ELSE (IF Head(s) = old THEN new ELSE <<Head(s)>>) \o ReplaceAtom(Tail(s), old, new)

DaysIn(y, mo) ==
  IF mo \in {4, 6, 9, 11} THEN 30
  ELSE IF mo = 2 THEN (IF y % 4 = 0 /\ (y % 100 # 0 \/ y % 400 = 0) THEN 29 ELSE 28)
  ELSE 31

BadDate == [ok |-> FALSE, y |-> 0, mo |-> 0, d |-> 0, hh |-> 0, mi |-> 0, ss |-> 0]
DateTime(y, mo, d, hh, mi, ss) ==
  [ok |-> TRUE, y |-> y, mo |-> mo, d |-> d, hh |-> hh, mi |-> mi, ss |-> ss]

\* [+-]HH:MM at the end of a time string
IsOffset(s) ==
  /\ Len(s) = 4
  /\ s[1] \in {"+", "-"}
  /\ Num2(s[2]) \in 0..23
  /\ s[3] = ":"
  /\ Num2(s[4]) \in 0..59

IsFraction(s) == Len(s) = 2 /\ s[1] = "." /\ s[2] \in {"123", "123456"}

\* what may follow the last time field: nothing, an offset
TailOk(s) == s = <<>> \/ IsOffset(s)

\* HH[:MM[:SS[.fff]]][offset] -> <<ok, hh, mi, ss>>
ParseTime(s) ==
  IF Len(s) = 0 \/ Num2(s[1]) \notin 0..23 THEN <<FALSE, 0, 0, 0>>
  ELSE IF Len(s) >= 3 /\ s[2] = ":" /\ Num2(s[3]) \in 0..59
  THEN IF Len(s) >= 5 /\ s[4] = ":" /\ Num2(s[5]) \in 0..59
       THEN LET rest == SubSeq(s, 6, Len(s))
                tl == IF Len(rest) >= 2 /\ IsFraction(SubSeq(rest, 1, 2))
                      THEN SubSeq(rest, 3, Len(rest)) ELSE rest
            IN <<TailOk(tl), Num2(s[1]), Num2(s[3]), Num2(s[5])>>
       ELSE <<TailOk(SubSeq(s, 4, Len(s))), Num2(s[1]), Num2(s[3]), 0>>
  ELSE <<TailOk(SubSeq(s, 2, Len(s))), Num2(s[1]), 0, 0>>

\* datetime.fromisoformat: YYYY-MM-DD[*HH[:MM[:SS[.fff]]][+HH:MM]]; ~ok is ValueError
fromisoformat(s) ==
  IF \/ Len(s) < 5
     \/ Num4(s[1]) < 0 \/ s[2] # "-" \/ Num2(s[3]) \notin 1..12 \/ s[4] # "-"
  THEN BadDate
  ELSE LET y == Num4(s[1])
           mo == Num2(s[3])
           d == Num2(s[5])
       IN IF d \notin 1..DaysIn(y, mo) THEN BadDate
          ELSE IF Len(s) = 5 THEN DateTime(y, mo, d, 0, 0, 0)
          ELSE LET t == ParseTime(SubSeq(s, 7, Len(s)))
               IN IF t[1] THEN DateTime(y, mo, d, t[2], t[3], t[4]) ELSE BadDate

\* variant: a timestamp that does not parse is replaced by a fixed date
ParseTimestampOrDefault(timestamp) ==
  LET dt == fromisoformat(ReplaceAtom(timestamp, "Z", <<"+", "00", ":", "00">>))
  IN IF dt.ok THEN dt ELSE DateTime(2024, 1, 1, 0, 0, 0)

\* line 213 and line 348
ParseTimestamp(timestamp) == fromisoformat(ReplaceAtom(timestamp, "Z", <<"+", "00", ":", "00">>))

\* dt.strftime('%Y-%m-%d_%H-%M-%S')
StampFilename(dt) ==
  <<ToString(dt.y), "-", Pad2(dt.mo), "-", Pad2(dt.d), "_",
    Pad2(dt.hh), "-", Pad2(dt.mi), "-", Pad2(dt.ss)>>

MonthNames == <<"January", "February", "March", "April", "May", "June", "July",
                "August", "September", "October", "November", "December">>

\* dt.strftime("%B %d, %Y at %I:%M %p")
StampHuman(dt) ==
  <<MonthNames[dt.mo], " ", Pad2(dt.d), ",", " ", ToString(dt.y), " ", "at", " ",
    Pad2(IF dt.hh % 12 = 0 THEN 12 ELSE dt.hh % 12), ":", Pad2(dt.mi), " ",
    IF dt.hh < 12 THEN "AM" ELSE "PM">>

(***************************************************************************)
(* Note file name and body.                                                *)
(***************************************************************************)
NL == "\n"
RULE == "---"
MD == ".md"

\* str() of a JSON value inside an f-string
PyStr(v) == IF v.k = "str" THEN v.s ELSE IF v.k = "null" THEN <<"None">> ELSE <<"{}">>

\* line 214
NoteFilename(dt, slug) == StampFilename(dt) \o <<"_">> \o PyStr(slug) \o <<MD>>

\* create_note_content, lines 340-363 (summary is accepted and unused)
create_note_content(transcript, timestamp, title, folder, summary) ==
  LET dt == ParseTimestamp(timestamp)
  IN <<"#", " ">> \o PyStr(title) \o <<NL, NL, "**Date:**", " ">> \o StampHuman(dt)
     \o <<NL, "**Folder:**", " ">> \o PyStr(folder) \o <<NL, NL, RULE, NL, NL>>
     \o transcript \o <<NL, NL, RULE, NL, NL, "*Captured with Cortex*", NL>>

(***************************************************************************)
(* list_entries: what it reads back from a note file.                      *)
(***************************************************************************)
PreviewLen == 100
IdLen == 8
Whitespace == {" ", NL}

\* str.find(atom): lowest 0-based index, -1 when absent
FindAtom(s, a) ==
  IF \E i \in 1..Len(s) : s[i] = a
  THEN (CHOOSE i \in 1..Len(s) : s[i] = a /\ \A j \in 1..(i - 1) : s[j] # a) - 1
  ELSE -1

RECURSIVE LStrip(_, _)
\* str.lstrip(chars)
LStrip(s, chars) ==
  IF s # <<>> /\ Head(s) \in chars THEN LStrip(Tail(s), chars) ELSE s

RECURSIVE RStrip(_, _)
RStrip(s, chars) ==
  IF s # <<>> /\ s[Len(s)] \in chars THEN RStrip(SubSeq(s, 1, Len(s) - 1), chars) ELSE s

\* str.strip()
Strip(s) == RStrip(LStrip(s, Whitespace), Whitespace)

RECURSIVE Split(_, _)
\* str.split(sep): always at least one part
Split(s, sep) ==
  LET i == FindAtom(s, sep)
  IN IF i < 0 THEN <<s>>
     ELSE <<SubSeq(s, 1, i)>> \o Split(SubSeq(s, i + 2, Len(s)), sep)

RECURSIVE CharLen(_)
CharLen(s) == IF s = <<>> THEN 0 ELSE Len(Head(s)) + CharLen(Tail(s))

\* s[:n] counted in characters: the longest run of whole atoms within n characters
PrefixChars(s, n) ==
  LET fits == {k \in 0..Len(s) : CharLen(SubSeq(s, 1, k)) <= n}
  IN SubSeq(s, 1, CHOOSE k \in fits : \A j \in fits : j <= k)

\* Path(settings.data_dir) / folder, for a relative folder without "." or "..":
\* the path below the data directory, its components joined by single slashes
Parts(folder) == SelectSeq(Split(folder, "/"), LAMBDA c : c # <<>>)

RECURSIVE Join(_)
Join(parts) ==
  IF parts = <<>> THEN <<>>
  ELSE IF Len(parts) = 1 THEN parts[1]
  ELSE parts[1] \o <<"/">> \o Join(Tail(parts))

PathOf(folder) == Join(Parts(folder))

\* Path.parent, and the ancestors mkdir(parents=True) makes with the path itself
Parent(path) == Join(SubSeq(Parts(path), 1, Len(Parts(path)) - 1))
Lineage(path) == {Join(SubSeq(Parts(path), 1, k)) : k \in 1..Len(Parts(path))}

\* Path.name; the data directory is /data
data == <<"d", "a", "t", "a">>
Name(path) == IF Parts(path) = <<>> THEN data ELSE Parts(path)[Len(Parts(path))]

\* Path.stem: the name without its last suffix
Stem(name) == IF name # <<>> /\ name[Len(name)] = MD THEN SubSeq(name, 1, Len(name) - 1) ELSE name

\* lines 429-430
EntryTitle(content) == Strip(LStrip(Split(content, NL)[1], {"#", " "}))

\* lines 432-439
EntryPreview(content) ==
  LET separator_idx == FindAtom(content, RULE)
  IN IF separator_idx > 0
     THEN LET after_sep == Strip(SubSeq(content, separator_idx + 2, Len(content)))
              second_sep == FindAtom(after_sep, RULE)
          IN IF second_sep > 0 THEN Strip(Prefix(after_sep, second_sep))
             ELSE Prefix(after_sep, PreviewLen)
     ELSE Prefix(content, PreviewLen)

\* lines 441-449
EntryTimestamp(filename, mtime) ==
  LET parts == Split(filename, "_")
  IN IF Len(parts) >= 2
     THEN parts[1] \o <<"T">> \o ReplaceAtom(parts[2], "-", <<":">>)
     ELSE <<"mtime", ToString(mtime)>>

\* lines 451-457
EntryInfo(path, file) ==
  LET filename == Stem(path[2])
  IN [id |-> PrefixChars(filename, IdLen),
      preview |-> Prefix(EntryPreview(file.body), PreviewLen),
      folder |-> Name(path[1]),
      timestamp |-> EntryTimestamp(filename, file.mtime),
      title |-> EntryTitle(file.body)]

(***************************************************************************)
(* State.                                                                  *)
(***************************************************************************)
NumProcs == 2
Procs == 1..NumProcs

VARIABLES
  api_key,    \* settings.nano_gpt_api_key is set
  dirs,       \* the folders under settings.data_dir
  files,      \* <<folder, filename>> -> [body, mtime]
  clock,      \* source of st_mtime
  task,       \* per process_transcript invocation: its position and locals
  created,    \* the outcome of the create_folder request being answered
  listing,    \* the outcome of the list_entries request being answered
  args,       \* arguments of a function applied on its own
  ret         \* its return value

vars == <<api_key, dirs, files, clock, task, created, listing, args, ret>>

default_folders == {inbox, ideas, tasks, journal}

NoClassification == DefaultResult(<<>>)
NoInstant == [valid |-> FALSE, date |-> <<>>, time |-> <<>>]
NoRequest == [transcript |-> <<>>, folder |-> <<>>, timestamp |-> <<>>, instant |-> NoInstant]
NoPath == <<<<>>, <<>>>>
NoResponse == [id |-> 0, preview |-> <<>>, folder |-> <<>>, file_path |-> NoPath, title |-> <<>>]

Idle == [pc |-> "idle", request |-> NoRequest, parsed |-> NoClassification,
         file_path |-> NoPath, note_content |-> <<>>, error |-> "none",
         response |-> NoResponse]

NoCreated == [called |-> FALSE, name |-> <<>>, status |-> 0, folder |-> <<>>, count |-> 0]
NoListing == [called |-> FALSE, folder |-> <<>>, limit |-> 0, selected |-> <<>>,
              unreadable |-> {}, read |-> <<>>, entries |-> <<>>]

\* startup_event / ensure_directories, lines 54-68
StorageInit ==
  /\ dirs = default_folders
  /\ files = <<>>
  /\ clock = 1

(***************************************************************************)
(* process_transcript, lines 196-238.  The coroutine suspends at the       *)
(* classifier call (line 204), at aiofiles.open (line 229, which creates   *)
(* or truncates the file) and at the write and close (lines 229-230);      *)
(* each action below is the code between two suspensions.                  *)
(***************************************************************************)
IsStr(v) == v.k = "str"

\* Path.exists: the data directory itself, or a folder below it
Exists(path) == path = <<>> \/ path \in dirs

\* dict.get(key, default) on the dict parse_ai_response returns
RecGet(d, key, default) == IF key \in DOMAIN d THEN d[key] ELSE default

\* open(file_path, "w"): the file exists and is empty
Truncated(fs, path, now) == (path :> [body |-> <<>>, mtime |-> now]) @@ fs

\* a write of content at offset 0 through a descriptor opened before
Overlaid(old, content) == content \o SubSeq(old, Len(content) + 1, Len(old))

WrittenAt(fs, path, content, now) ==
  LET old == IF path \in DOMAIN fs THEN fs[path].body ELSE <<>>
  IN (path :> [body |-> Overlaid(old, content), mtime |-> now]) @@ fs

\* lines 232-238; pydantic rejects a field that is no str
ProcessResponse(id, preview, folder, file_path, title) ==
  IF IsStr(preview) /\ IsStr(folder) /\ IsStr(title)
  THEN [ok |-> TRUE,
        val |-> [id |-> id, preview |-> preview.s, folder |-> folder.s,
                 file_path |-> file_path, title |-> title.s]]
  ELSE [ok |-> FALSE, val |-> NoResponse]

\* create_folder and list_entries are modelled as one turn of the event loop each:
\* their response leaves before another handler resumes
Quiet == ~created.called /\ ~listing.called

\* the request arrives: lines 197-204 up to the suspension in call_ai
Process(p, request) ==
  /\ Quiet
  /\ task[p].pc = "idle"
  /\ task' = [task EXCEPT ![p] = [Idle EXCEPT !.pc = "call_ai", !.request = request]]
  /\ UNCHANGED <<api_key, dirs, files, clock, created, listing, args, ret>>

\* an exception leaves the handler: the request fails with a server error
Fail(p, e, parsed) ==
  task' = [task EXCEPT ![p].pc = "failed", ![p].error = e, ![p].parsed = parsed]

\* call_ai returns; lines 204-227 run up to the suspension in aiofiles.open
Classified(p, reply) ==
  /\ Quiet
  /\ task[p].pc = "call_ai"
  /\ LET request == task[p].request
         ai_response == call_ai(request.transcript, request.folder, api_key, reply)
         r == parse_ai_response(ai_response, request.folder)
         parsed == r.val
         dt == ParseTimestamp(request.timestamp)
     IN IF r.err # "none"
        THEN Fail(p, r.err, NoClassification) /\ UNCHANGED dirs
        ELSE IF ~dt.ok
        THEN Fail(p, "ValueError", parsed) /\ UNCHANGED dirs
        ELSE IF ~IsStr(parsed.folder)
        THEN Fail(p, "TypeError", parsed) /\ UNCHANGED dirs
        ELSE IF ~Exists(Parent(PathOf(parsed.folder.s)))
        THEN Fail(p, "FileNotFoundError", parsed) /\ UNCHANGED dirs
        ELSE /\ dirs' = dirs \cup ({PathOf(parsed.folder.s)} \ {<<>>})
             /\ task' = [task EXCEPT
                  ![p].pc = "open",
                  ![p].parsed = parsed,
                  ![p].file_path = <<PathOf(parsed.folder.s), NoteFilename(dt, parsed.slug)>>,
                  ![p].note_content = create_note_content(
                     request.transcript, request.timestamp, parsed.title,
                     parsed.folder, RecGet(parsed, "summary", StrLit(<<>>)))]
  /\ UNCHANGED <<api_key, files, clock, created, listing, args, ret>>

\* line 229: aiofiles.open(file_path, "w") runs in a worker thread
Open(p) ==
  /\ Quiet
  /\ task[p].pc = "open"
  /\ files' = Truncated(files, task[p].file_path, clock)
  /\ clock' = clock + 1
  /\ task' = [task EXCEPT ![p].pc = "write"]
  /\ UNCHANGED <<api_key, dirs, created, listing, args, ret>>

\* lines 230-238: the content reaches the file, the file is closed, the response is built
Write(p) ==
  /\ Quiet
  /\ task[p].pc = "write"
  /\ files' = WrittenAt(files, task[p].file_path, task[p].note_content, clock)
  /\ clock' = clock + 1
  /\ LET t == task[p]
         \* parsed always has "summary", so the default of parsed.get is never taken
         preview == RecGet(t.parsed, "summary",
                           StrLit(Prefix(t.request.transcript, SummaryLen)))
         out == ProcessResponse(p, preview, t.parsed.folder, t.file_path, t.parsed.title)
     IN IF out.ok
        THEN task' = [task EXCEPT ![p].pc = "done", ![p].response = out.val]
        ELSE Fail(p, "ValidationError", t.parsed)
  /\ UNCHANGED <<api_key, dirs, created, listing, args, ret>>

(***************************************************************************)
(* create_folder, lines 386-401.                                           *)
(***************************************************************************)
Lower(c) == IF c = "M" THEN "m" ELSE IF c = "I" THEN "i" ELSE c

\* variant: the case of the name is kept
FolderNameKeepsCase(name) == ReplaceAtom(name, " ", <<"-">>)

\* request.name.lower().replace(" ", "-")
FolderName(name) == ReplaceAtom([i \in 1..Len(name) |-> Lower(name[i])], " ", <<"-">>)

CreateFolder(name) ==
  /\ Quiet
  /\ LET folder_name == FolderName(name)
     IN IF Exists(PathOf(folder_name))
        THEN /\ created' = [called |-> TRUE, name |-> name, status |-> 400,
                            folder |-> <<>>, count |-> 0]
             /\ UNCHANGED dirs
        ELSE /\ dirs' = dirs \cup Lineage(PathOf(folder_name))
             /\ created' = [called |-> TRUE, name |-> name, status |-> 200,
                            folder |-> folder_name, count |-> 0]
  /\ UNCHANGED <<api_key, files, clock, task, listing, args, ret>>

(***************************************************************************)
(* list_entries, lines 404-462.                                            *)
(***************************************************************************)
\* lines 411-418: glob("*.md") in one folder, or glob("*/*.md")
Globbed(folder) ==
  IF folder # <<>>
  THEN IF Exists(PathOf(folder))
       THEN {f \in DOMAIN files : f[1] = PathOf(folder)} ELSE {}
  ELSE {f \in DOMAIN files : Len(Parts(f[1])) = 1}

\* line 421: newest first
SortedByMtime(fs) ==
  CHOOSE q \in [1..Cardinality(fs) -> fs] :
    /\ \A i, j \in 1..Cardinality(fs) : i # j => q[i] # q[j]
    /\ \A i, j \in 1..Cardinality(fs) : i < j => files[q[i]].mtime >= files[q[j]].mtime

\* files[:limit]
SliceLimit(q, limit) ==
  IF limit >= 0 THEN Prefix(q, limit) ELSE SubSeq(q, 1, Len(q) + limit)

RECURSIVE SelectSeq2(_, _)
\* the elements of q outside bad, in order
SelectSeq2(q, bad) ==
  IF q = <<>> THEN <<>>
  ELSE (IF Head(q) \in bad THEN <<>> ELSE <<Head(q)>>) \o SelectSeq2(Tail(q), bad)

\* unreadable: the files whose open or read raises; their except branch skips them
ListEntries(folder, limit, unreadable) ==
  /\ Quiet
  /\ LET selected == SliceLimit(SortedByMtime(Globbed(folder)), limit)
         read == SelectSeq2(selected, unreadable)
     IN /\ unreadable \subseteq {selected[i] : i \in 1..Len(selected)}
        /\ listing' = [called |-> TRUE, folder |-> folder, limit |-> limit,
                       selected |-> selected, unreadable |-> unreadable, read |-> read,
                       entries |-> [i \in 1..Len(read) |-> EntryInfo(read[i], files[read[i]])]]
  /\ UNCHANGED <<api_key, dirs, files, clock, task, created, args, ret>>

\* the response of create_folder or list_entries is sent
Answered ==
  /\ ~Quiet
  /\ created' = NoCreated
  /\ listing' = NoListing
  /\ UNCHANGED <<api_key, dirs, files, clock, task, args, ret>>

(***************************************************************************)
(* Functions applied on their own: the arguments are drawn in the initial  *)
(* state and one action applies the function.                              *)
(***************************************************************************)
NoRet == [called |-> FALSE]
Ret(v) == [called |-> TRUE, val |-> v]

PipelineIdle ==
  /\ api_key = FALSE
  /\ StorageInit
  /\ task = [p \in Procs |-> Idle]
  /\ created = NoCreated
  /\ listing = NoListing

NoArgs == [fn |-> "none"]

MaxRawLen == 4
MaxTranscriptLen == 102

Fields == {kFolder, kTitle, kSummary, kSlug}
FieldOrder == <<kFolder, kTitle, kSummary, kSlug>>

\* classifier texts: every lexeme sequence up to MaxRawLen ...
RawAlphabet == {LBRACE, RBRACE, COLON, COMMA, PROSE, StrLit(kSlug), StrLit(<<"x">>)}
RawSequences == UNION {[1..n -> RawAlphabet] : n \in 0..MaxRawLen}

\* ... and every object over the four fields (a field is absent, a string, the
\* empty string or null), bare or wrapped in prose, whole or cut before its closing
\* brace.  origin records how the text was made.
PartialObjects == UNION {[fs -> {"str", "empty", "null"}] : fs \in SUBSET Fields}
ValueOf(f, c) ==
  IF c = "str" THEN StrLit(<<"v">> \o f) ELSE IF c = "empty" THEN StrLit(<<>>) ELSE NULL

RECURSIVE PairsOf(_, _)
PairsOf(obj, i) ==
  IF i > Len(FieldOrder) THEN <<>>
  ELSE (IF FieldOrder[i] \in DOMAIN obj
        THEN <<<<FieldOrder[i], ValueOf(FieldOrder[i], obj[FieldOrder[i]])>>>> ELSE <<>>)
       \o PairsOf(obj, i + 1)

Wrappings == {<<>>, <<PROSE>>, <<PROSE, PROSE>>}
Wrapped(obj, pre, post) == pre \o JsonDumps(PairsOf(obj, 1)) \o post
Cut(t) == SubSeq(t, 1, Len(t) - 1)

Origin(kind, obj) == [kind |-> kind, obj |-> obj]

RawTexts ==
  {[response |-> Text(t), origin |-> Origin("free", <<>>)] : t \in RawSequences}
  \cup {[response |-> Text(Wrapped(obj, pre, post)), origin |-> Origin("object", obj)] :
          obj \in PartialObjects, pre \in Wrappings, post \in Wrappings}
  \cup {[response |-> Text(Cut(Wrapped(obj, <<>>, <<>>))), origin |-> Origin("cut", obj)] :
          obj \in PartialObjects}

InitInterp ==
  /\ PipelineIdle
  /\ \E r \in RawTexts, d \in {inbox, tasks} :
       args = [fn |-> "parse_ai_response", response |-> r.response,
               default_folder |-> d, origin |-> r.origin]
  /\ ret = NoRet

Interpret ==
  /\ args.fn = "parse_ai_response"
  /\ ~ret.called
  /\ ret' = Ret(parse_ai_response(args.response, args.default_folder))
  /\ UNCHANGED <<api_key, dirs, files, clock, task, created, listing, args>>

\* the caller drops the result
Forget ==
  /\ ret.called
  /\ ret' = NoRet
  /\ UNCHANGED <<api_key, dirs, files, clock, task, created, listing, args>>

NextInterp == Interpret \/ Forget
SpecInterp == InitInterp /\ [][NextInterp]_vars

\* transcripts: one per length, over three letters
Letter(i) == IF i % 3 = 1 THEN "a" ELSE IF i % 3 = 2 THEN "b" ELSE "c"
Transcript(n) == [i \in 1..n |-> Letter(i)]

Contents == {Text(<<PROSE>>), Text(<<>>), NonText,
             Text(<<LBRACE, StrLit(kFolder), COLON, StrLit(tasks), RBRACE>>)}
Replies == {Reply(k, NonText) : k \in FailureKinds} \cup {Reply("content", c) : c \in Contents}

InitClassify ==
  /\ PipelineIdle
  /\ args \in [fn : {"call_ai"}, transcript : {Transcript(n) : n \in 0..MaxTranscriptLen},
               default_folder : {inbox, tasks}, api_key : BOOLEAN, reply : Replies]
  /\ ret = NoRet

Classify ==
  /\ args.fn = "call_ai"
  /\ ~ret.called
  /\ ret' = Ret(call_ai(args.transcript, args.default_folder, args.api_key, args.reply))
  /\ UNCHANGED <<api_key, dirs, files, clock, task, created, listing, args>>

NextClassify == Classify \/ Forget
SpecClassify == InitClassify /\ [][NextClassify]_vars

(***************************************************************************)
(* Requests.  A client renders request.timestamp from an instant (a date   *)
(* and a time of day) in one of the ISO-8601 forms, or sends a text that   *)
(* is no date-time; request.instant records which.                         *)
(***************************************************************************)
Date(y, m, d) == <<y, "-", m, "-", d>>
Time(hh, mi, ss) == <<hh, ":", mi, ":", ss>>
Instant(date, time) == [valid |-> TRUE, date |-> date, time |-> time]

Forms == {"plain", "Z", "fracZ", "frac6", "offset", "negoffset", "space", "minutes", "date"}

Rendered(i, form) ==
  IF form = "plain" THEN i.date \o <<"T">> \o i.time
  ELSE IF form = "Z" THEN i.date \o <<"T">> \o i.time \o <<"Z">>
  ELSE IF form = "fracZ" THEN i.date \o <<"T">> \o i.time \o <<".", "123", "Z">>
  ELSE IF form = "frac6" THEN i.date \o <<"T">> \o i.time \o <<".", "123456">>
  ELSE IF form = "offset" THEN i.date \o <<"T">> \o i.time \o <<"+", "05", ":", "30">>
  ELSE IF form = "negoffset" THEN i.date \o <<"T">> \o i.time \o <<"-", "08", ":", "00">>
  ELSE IF form = "space" THEN i.date \o <<" ">> \o i.time
  ELSE IF form = "minutes" THEN i.date \o <<"T">> \o SubSeq(i.time, 1, 3)
  ELSE i.date

\* a form that drops the seconds or the time is only used when they are zero
FormFits(i, form) ==
  /\ form = "minutes" => i.time[5] = "00"
  /\ form = "date" => i.time = Time("00", "00", "00")

Stamp(i, form) == [timestamp |-> Rendered(i, form), instant |-> i]
NoStamp(t) == [timestamp |-> t, instant |-> NoInstant]

Noon == Instant(Date("2024", "01", "02"), Time("10", "05", "07"))
LeapDay == Instant(Date("2024", "02", "29"), Time("12", "30", "00"))
Midnight == Instant(Date("2025", "12", "31"), Time("00", "00", "00"))
LastSecond == Instant(Date("2023", "11", "30"), Time("23", "59", "59"))

Instants == {Noon, LeapDay, Midnight, LastSecond}
ValidStamps ==
  UNION {{Stamp(i, f) : f \in {g \in Forms : FormFits(i, g)}} : i \in Instants}

\* texts that are no ISO-8601 date-time
MalformedStamps ==
  {NoStamp(t) : t \in {
     <<>>,
     <<"x">>,
     <<"Z">>,
     Date("2024", "01", "02") \o <<"T">>,
     <<"2024", "-", "01">>,
     Date("2024", "13", "02") \o <<"T">> \o Time("10", "05", "07"),
     Date("2023", "02", "29") \o <<"T">> \o Time("10", "05", "07"),
     Date("2024", "01", "02") \o <<"T">> \o Time("25", "05", "07"),
     Date("2024", "01", "02") \o <<"T">> \o Time("10", "05", "61") \o <<"Z">>,
     Date("2024", "01", "02") \o <<"T">> \o Time("10", "05", "07") \o <<"Z", "Z">>,
     Date("2024", "01", "02") \o <<"T">> \o Time("10", "05", "07") \o <<"x">>,
     <<"10", ":", "05", ":", "07">>}}

Request(transcript, folder, stamp) ==
  [transcript |-> transcript, folder |-> folder,
   timestamp |-> stamp.timestamp, instant |-> stamp.instant]

\* a JSON object as the classifier writes it, inside prose
Answer(pairs) == Reply("content", Text(<<PROSE>> \o JsonDumps(pairs) \o <<PROSE>>))

underscored == <<"a", "_", "b", "-", "c">>
projects == <<"p", "r", "o", "j">>
nested == inbox \o <<"/">> \o projects
orphan == <<"n", "o", "/">> \o projects

(***************************************************************************)
(* SpecPipeline: one process_transcript invocation over every request and  *)
(* classifier outcome, followed by list_entries.                           *)
(***************************************************************************)
MaxLimit == 2

PipelineRequests ==
  {Request(Transcript(n), f, st) :
     n \in {0, 2, SummaryLen + 1}, f \in {inbox, ideas},
     st \in ValidStamps \cup MalformedStamps}

PipelineReplies ==
  {Reply(k, NonText) : k \in FailureKinds}
  \cup {Reply("content", c) : c \in {NonText, Text(<<>>), Text(<<PROSE, RBRACE, LBRACE>>)}}
  \cup {Answer(<<<<kFolder, StrLit(projects)>>, <<kSlug, StrLit(underscored)>>>>),
        Answer(<<<<kFolder, StrLit(nested)>>>>),
        Answer(<<<<kFolder, StrLit(orphan)>>>>),
        Answer(<<<<kTitle, StrLit(<<"T">>)>>, <<kSummary, StrLit(<<"s">>)>>>>),
        Answer(<<<<kSummary, StrLit(<<>>)>>, <<kSlug, StrLit(<<>>)>>>>),
        Answer(<<<<kFolder, NULL>>>>),
        Answer(<<<<kTitle, NULL>>, <<kSlug, NULL>>>>),
        Answer(<<<<kSummary, NULL>>>>)}

InitPipeline ==
  /\ api_key \in BOOLEAN
  /\ StorageInit
  /\ task = [p \in Procs |-> Idle]
  /\ created = NoCreated
  /\ listing = NoListing
  /\ args = NoArgs
  /\ ret = NoRet

NextPipeline ==
  \/ \E r \in PipelineRequests : Process(1, r)
  \/ \E r \in PipelineReplies : Classified(1, r)
  \/ Open(1)
  \/ Write(1)
  \/ \E f \in {<<>>, projects, nested}, l \in {0, MaxLimit}, u \in SUBSET DOMAIN files :
       ListEntries(f, l, u)
  \/ Answered

SpecPipeline == InitPipeline /\ [][NextPipeline]_vars

(***************************************************************************)
(* SpecRace: every process runs one process_transcript invocation, all of  *)
(* them concurrently, on requests that name the same second.               *)
(***************************************************************************)
RaceRequests ==
  {Request(Transcript(n), inbox, st) :
     n \in {1, 3}, st \in {Stamp(Noon, "Z"), Stamp(Noon, "fracZ"), Stamp(LeapDay, "plain")}}

RaceReplies ==
  {Reply("timeout", NonText),
   Answer(<<<<kTitle, StrLit(<<"T">>)>>, <<kSummary, StrLit(<<"s">>)>>>>)}

NextRace ==
  \E p \in Procs :
    \/ \E r \in RaceRequests : Process(p, r)
    \/ \E r \in RaceReplies : Classified(p, r)
    \/ Open(p)
    \/ Write(p)

SpecRace == InitPipeline /\ [][NextRace]_vars

(***************************************************************************)
(* SpecCorpus: folders are created and entries listed while notes are      *)
(* stored one after the other.                                             *)
(***************************************************************************)
MaxDirs == 6
MaxClock == 4

\* the handler has returned; the worker takes the next request
Return(p) ==
  /\ Quiet
  /\ task[p].pc \in {"done", "failed"}
  /\ task' = [task EXCEPT ![p] = Idle]
  /\ UNCHANGED <<api_key, dirs, files, clock, created, listing, args, ret>>

MyIdeas == <<"M", "y", " ", "I", "d", "e", "a", "s">>
FolderNames ==
  {<<>>, <<"M">>, <<" ">>, <<"M", "/", "I">>, MyIdeas,
   <<"m", "y", "-", "i", "d", "e", "a", "s">>, <<"I", "n", "b", "o", "x">>}

CorpusRequests ==
  {Request(Transcript(2), inbox, st) : st \in {Stamp(Noon, "Z"), Stamp(Midnight, "date")}}

CorpusReplies ==
  {Reply("non200", NonText),
   Answer(<<<<kFolder, StrLit(projects)>>, <<kSlug, StrLit(underscored)>>>>)}

NextCorpus ==
  \/ \E r \in CorpusRequests : clock < MaxClock /\ Process(1, r)
  \/ \E r \in CorpusReplies : Classified(1, r)
  \/ Open(1)
  \/ Write(1)
  \/ Return(1)
  \/ \E n \in FolderNames : Cardinality(dirs) < MaxDirs /\ CreateFolder(n)
  \/ \E f \in {<<>>, inbox, projects}, l \in -1..MaxLimit, u \in SUBSET DOMAIN files :
       ListEntries(f, l, u)
  \/ Answered

SpecCorpus == InitPipeline /\ [][NextCorpus]_vars

(***************************************************************************)
(* Claims about parse_ai_response, under SpecInterp.                       *)
(***************************************************************************)
Interpreted == args.fn = "parse_ai_response" /\ ret.called

\* some '{' comes before some '}': the first '{' is before the last '}'
HasSpan(t) == \E i, j \in 1..Len(t) : i < j /\ t[i].k = "lbrace" /\ t[j].k = "rbrace"

\* the text from the first '{' to the last '}'
SpanOf(t) ==
  LET opens == {i \in 1..Len(t) : t[i].k = "lbrace"}
      closes == {i \in 1..Len(t) : t[i].k = "rbrace"}
  IN SubSeq(t, CHOOSE i \in opens : \A j \in opens : i <= j,
               CHOOSE i \in closes : \A j \in closes : j <= i)

Malformed(t) == t = <<>> \/ ~HasSpan(t) \/ ~JsonLoads(SpanOf(t)).ok

\* C1: a classifier text that is empty, has no '{' ... '}' span, or whose span is
\* no JSON makes parse_ai_response return, without raising, exactly
\* {folder: default_folder, title: "Untitled", summary: "", slug: "note"}.
C1_MalformedGivesDefault ==
  (Interpreted /\ Malformed(args.response.toks)) =>
    ret.val = [err |-> "none",
               val |-> [folder |-> [k |-> "str", s |-> args.default_folder],
                        title |-> [k |-> "str", s |-> <<"Untitled">>],
                        summary |-> [k |-> "str", s |-> <<>>],
                        slug |-> [k |-> "str", s |-> <<"note">>]]]

\* a span exists, it is no JSON (an object cut before its closing brace inside
\* braces of prose), and the default folder is not the first one
C1_Witness ==
  /\ Interpreted
  /\ HasSpan(args.response.toks)
  /\ ~JsonLoads(SpanOf(args.response.toks)).ok
  /\ Len(args.response.toks) = MaxRawLen
  /\ args.default_folder = tasks
  /\ ret.val.val.folder.s = tasks

FieldDefault(f, default_folder) ==
  IF f = kFolder THEN default_folder
  ELSE IF f = kTitle THEN <<"Untitled">>
  ELSE IF f = kSummary THEN <<>>
  ELSE <<"note">>

FieldOf(result, f) ==
  IF f = kFolder THEN result.folder
  ELSE IF f = kTitle THEN result.title
  ELSE IF f = kSummary THEN result.summary
  ELSE result.slug

\* C2: when the first-'{'-to-last-'}' span is a JSON object, the result has the four
\* fields; a field the object carries keeps the object's value, a field it lacks
\* gets its own default; the prose around the object does not matter.
C2_FieldsPassOrDefault ==
  (Interpreted /\ HasSpan(args.response.toks) /\ JsonLoads(SpanOf(args.response.toks)).ok) =>
    LET pairs == JsonLoads(SpanOf(args.response.toks)).pairs
        at(f) == {i \in 1..Len(pairs) : pairs[i][1] = f}
        obj == args.origin.obj
    IN /\ ret.val.err = "none"
       /\ DOMAIN ret.val.val = {"folder", "title", "summary", "slug"}
       /\ \A f \in Fields :
            /\ at(f) = {} => FieldOf(ret.val.val, f) = [k |-> "str", s |-> FieldDefault(f, args.default_folder)]
            /\ at(f) # {} => \E i \in at(f) : FieldOf(ret.val.val, f) = pairs[i][2]
       /\ args.origin.kind = "object" =>
            \A f \in Fields :
              FieldOf(ret.val.val, f) =
                IF f \in DOMAIN obj
                THEN (IF obj[f] = "str" THEN [k |-> "str", s |-> <<"v">> \o f]
                      ELSE IF obj[f] = "empty" THEN [k |-> "str", s |-> <<>>]
                      ELSE [k |-> "null", s |-> <<>>])
                ELSE [k |-> "str", s |-> FieldDefault(f, args.default_folder)]

\* an object with some fields and not others, wrapped in prose on both sides
C2_Witness ==
  /\ Interpreted
  /\ args.origin.kind = "object"
  /\ DOMAIN args.origin.obj = {kFolder, kSlug}
  /\ args.response.toks[1] = PROSE
  /\ args.response.toks[Len(args.response.toks)] = PROSE
  /\ args.default_folder = inbox
  /\ ret.val.val.folder.s = <<"v">> \o kFolder
  /\ ret.val.val.title.s = <<"Untitled">>

(***************************************************************************)
(* Claims about call_ai, under SpecClassify.                               *)
(***************************************************************************)
Str(s) == [k |-> "str", s |-> s]
Punct(k) == [k |-> k, s |-> <<>>]

\* the fallback JSON of the claim, as text
FallbackJson(transcript, default_folder) ==
  [isText |-> TRUE,
   toks |-> <<Punct("lbrace"),
              Str(<<"folder">>), Punct("colon"), Str(default_folder), Punct("comma"),
              Str(<<"title">>), Punct("colon"),
              Str(IF Len(transcript) > 30
                  THEN SubSeq(transcript, 1, 30) \o <<"...">> ELSE transcript),
              Punct("comma"),
              Str(<<"summary">>), Punct("colon"),
              Str(SubSeq(transcript, 1, IF Len(transcript) > 100 THEN 100 ELSE Len(transcript))),
              Punct("comma"),
              Str(<<"slug">>), Punct("colon"), Str(<<"note">>),
              Punct("rbrace")>>]

\* C5: on a transport failure, a timeout, a non-200 response or an exception, call_ai
\* returns the fallback JSON it returns without a credential: folder = default_folder,
\* title = the first 30 characters plus an ellipsis when the transcript is longer,
\* summary = the first 100 characters, slug = "note".
C5_FailureFallbackIsMock ==
  (args.fn = "call_ai" /\ ret.called /\ args.api_key /\ args.reply.kind \in FailureKinds) =>
    ret.val = FallbackJson(args.transcript, args.default_folder)

\* the part of C5 the code keeps: without a credential the fallback is the claimed one,
\* and up to 30 characters every failure gives it too
C5_MockIsFallback ==
  (args.fn = "call_ai" /\ ret.called
   /\ (~args.api_key \/ (args.reply.kind \in FailureKinds /\ Len(args.transcript) <= 30))) =>
    ret.val = FallbackJson(args.transcript, args.default_folder)

(***************************************************************************)
(* Claims about process_transcript, under SpecPipeline.                    *)
(***************************************************************************)
\* part occurs in whole as one run
Contains(whole, part) ==
  \E k \in 0..(Len(whole) - Len(part)) : SubSeq(whole, k + 1, k + Len(part)) = part

Ended(p) == task[p].pc \in {"done", "failed"}

\* C3: with a parseable timestamp, whatever the classifier does (no credential,
\* transport failure, timeout, non-200, a 200 with any content), the invocation does
\* not fail and ends with a note persisted that contains the verbatim transcript.
C3_ClassifierNeverFailsTheRequest ==
  \A p \in Procs :
    (Ended(p) /\ task[p].request.instant.valid) =>
      /\ task[p].pc = "done"
      /\ task[p].file_path \in DOMAIN files
      /\ Contains(files[task[p].file_path].body, task[p].request.transcript)

\* C4: the preview returned is the interpreted summary when that is non-empty, and
\* the first 100 characters of the transcript when it is empty.
C4_PreviewFallsBackToTranscript ==
  \A p \in Procs :
    task[p].pc = "done" =>
      task[p].response.preview =
        IF task[p].parsed.summary.s # <<>> THEN task[p].parsed.summary.s
        ELSE SubSeq(task[p].request.transcript, 1,
                    IF Len(task[p].request.transcript) > 100 THEN 100
                    ELSE Len(task[p].request.transcript))

\* C6: an invocation whose timestamp is no ISO-8601 date-time fails with an error
\* and none of its steps changes storage: no folder is created, no file is written
\* or overwritten, although the classification has run.
C6_BadTimestampLeavesStorage ==
  [][\A p \in Procs :
       (task[p].pc # "idle" /\ ~task[p].request.instant.valid) =>
         /\ task'[p].pc \in {"call_ai", "failed"}
         /\ task'[p].pc = "failed" => task'[p].error # "none"
         /\ task'[p] # task[p] => (dirs' = dirs /\ files' = files)]_vars

\* the classifier named a folder that does not exist, the timestamp was refused, and
\* neither the folder nor a file has appeared
C6_Witness ==
  /\ task[1].pc = "failed"
  /\ task[1].error = "ValueError"
  /\ ~task[1].request.instant.valid
  /\ task[1].request.timestamp # <<>>
  /\ task[1].parsed.folder.s = projects
  /\ projects \notin dirs
  /\ DOMAIN files = {}

Dashed(time) == <<time[1], "-", time[3], "-", time[5]>>
SlugText(v) == IF v.k = "str" THEN v.s ELSE <<"None">>
HasFile(p) == task[p].pc \in {"open", "write", "done"} \/ task[p].error = "ValidationError"

\* C10: for a valid ISO timestamp T (with or without Z) the note is named
\* <YYYY-MM-DD>_<HH-MM-SS>_<slug>.md after T's date and time to the second, and
\* list_entries reports for that file the folder it was stored in and the timestamp
\* <YYYY-MM-DD>T<HH:MM:SS> of T, also when the slug holds underscores or hyphens.
C10_FilenameRoundTrip ==
  \A p \in Procs :
    (HasFile(p) /\ task[p].request.instant.valid) =>
      LET i == task[p].request.instant
      IN /\ task[p].file_path[2] =
              i.date \o <<"_">> \o Dashed(i.time) \o <<"_">>
                \o SlugText(task[p].parsed.slug) \o <<".md">>
         /\ (listing.called /\ task[p].pc = "done") =>
              \A k \in 1..Len(listing.read) :
                listing.read[k] = task[p].file_path =>
                  /\ listing.entries[k].folder = task[p].parsed.folder.s
                  /\ listing.entries[k].timestamp = i.date \o <<"T">> \o i.time

\* the part of C10 about names and timestamps alone
C10_NameAndTimestampRoundTrip ==
  \A p \in Procs :
    (HasFile(p) /\ task[p].request.instant.valid) =>
      LET i == task[p].request.instant
      IN /\ task[p].file_path[2] =
              i.date \o <<"_">> \o Dashed(i.time) \o <<"_">>
                \o SlugText(task[p].parsed.slug) \o <<".md">>
         /\ (listing.called /\ task[p].pc = "done") =>
              \A k \in 1..Len(listing.read) :
                listing.read[k] = task[p].file_path =>
                  listing.entries[k].timestamp = i.date \o <<"T">> \o i.time

\* a note with a slug of underscores and hyphens, from a timestamp ending in Z, listed
C10_Witness ==
  /\ task[1].pc = "done"
  /\ task[1].request.instant = Noon
  /\ task[1].request.timestamp[Len(task[1].request.timestamp)] = "Z"
  /\ task[1].parsed.slug.s = underscored
  /\ listing.called
  /\ Len(listing.entries) = 1
  /\ listing.read[1] = task[1].file_path
  /\ listing.entries[1].folder = projects
  /\ listing.entries[1].timestamp =
       <<"2024", "-", "01", "-", "02", "T", "10", ":", "05", ":", "07">>

(***************************************************************************)
(* Claim about concurrent invocations, under SpecRace.                     *)
(***************************************************************************)
SameTarget(p, q) ==
  /\ task[p].request.instant.valid
  /\ task[p].request.instant = task[q].request.instant
  /\ task[p].parsed.folder = task[q].parsed.folder
  /\ task[p].parsed.slug = task[q].parsed.slug

OthersAway(p, q) == \A r \in Procs \ {p, q} : task[r].pc = "idle"

\* C9: two invocations that resolve to the same folder, slug and second, in any
\* interleaving, both succeed and report the same path, and storage ends with one
\* note file at that path whose body is the whole body of one of the two notes.
C9_CollisionKeepsOneWholeNote ==
  \A p, q \in Procs :
    (p # q /\ Ended(p) /\ Ended(q) /\ SameTarget(p, q) /\ OthersAway(p, q)) =>
      /\ task[p].pc = "done"
      /\ task[q].pc = "done"
      /\ task[p].response.file_path = task[q].response.file_path
      /\ DOMAIN files = {task[p].response.file_path}
      /\ files[task[p].response.file_path].body \in {task[p].note_content, task[q].note_content}

(***************************************************************************)
(* Claims about create_folder and list_entries, under SpecCorpus.          *)
(***************************************************************************)
\* the name in lower case with a hyphen for every space
Normalized(name) ==
  [i \in 1..Len(name) |->
     IF name[i] = " " THEN "-"
     ELSE IF name[i] = "M" THEN "m"
     ELSE IF name[i] = "I" THEN "i"
     ELSE name[i]]

\* d is n or a folder above n
IsAncestorOrSelf(d, n) ==
  d = n \/ (Len(d) < Len(n) /\ SubSeq(n, 1, Len(d)) = d /\ n[Len(d) + 1] = "/")

\* C7: create_folder(name) targets the folder named by lower-casing name and putting
\* a hyphen for each space; when no such folder exists it creates it and returns that
\* name with count 0; when it exists it fails with the already-exists error and the
\* folders and their contents stay as they were.
C7_CreateFolderOnceOnly ==
  [][(created'.called /\ ~created.called) =>
       LET n == Normalized(created'.name)
       IN IF n \in dirs \/ n = <<>>
          THEN /\ created'.status = 400
               /\ dirs' = dirs
               /\ files' = files
          ELSE /\ created'.status = 200
               /\ created'.folder = n
               /\ created'.count = 0
               /\ n \in dirs'
               /\ \A d \in dirs' \ dirs : IsAncestorOrSelf(d, n)
               /\ dirs \subseteq dirs'
               /\ files' = files
               /\ \A f \in DOMAIN files' : f[1] # n]_vars

\* "My Ideas" asked for when "my-ideas" is there: refused, "my-ideas" still there
C7_Witness ==
  /\ created.called
  /\ created.name = <<"M", "y", " ", "I", "d", "e", "a", "s">>
  /\ created.status = 400
  /\ <<"m", "y", "-", "i", "d", "e", "a", "s">> \in dirs
  /\ Cardinality(dirs) = 5

limitOrZero(limit) == IF limit < 0 THEN 0 ELSE limit

\* C8: list_entries never fails because a note file cannot be read; it returns at
\* most limit entries (none when limit is below one), newest first, one for each
\* readable file among the selected files and none for an unreadable one.
C8_ListingSkipsUnreadable ==
  listing.called =>
    /\ Len(listing.entries) <= limitOrZero(listing.limit)
    /\ Len(listing.entries) = Len(listing.selected) - Cardinality(listing.unreadable)
    /\ \A k \in 1..Len(listing.read) : listing.read[k] \notin listing.unreadable
    /\ \A k \in 1..(Len(listing.read) - 1) :
         files[listing.read[k]].mtime >= files[listing.read[k + 1]].mtime

\* the part of C8 that holds for every limit: the listing answers, with one entry per
\* readable selected file, newest first, and within limit when limit is not negative
C8_ListingSkipsUnreadableNat ==
  listing.called =>
    /\ listing.limit >= 0 => Len(listing.entries) <= listing.limit
    /\ Len(listing.entries) = Len(listing.selected) - Cardinality(listing.unreadable)
    /\ \A k \in 1..Len(listing.read) : listing.read[k] \notin listing.unreadable
    /\ \A k \in 1..(Len(listing.read) - 1) :
         files[listing.read[k]].mtime >= files[listing.read[k + 1]].mtime

\* one unreadable and one valid file in the folder: exactly the valid one is listed
C8_Scenario ==
  /\ listing.called
  /\ listing.folder = inbox
  /\ Len(listing.selected) = 2
  /\ Cardinality(listing.unreadable) = 1
  /\ Len(listing.entries) = 1

====
